---------------------------- MODULE Spec2Model ----------------------------
(***************************************************************************)
(* A model of the botabasic interpreter (src/src/main.rs).                 *)
(*                                                                         *)
(* Text is modelled as sequences of one-character strings, so that         *)
(* splitting, upper-casing, literal parsing and display are computed and   *)
(* not assumed.  A Variable is a record [tag, val]; a Float payload is a   *)
(* rational [num, den] (den = 0 encodes the non-finite values).            *)
(*                                                                         *)
(* Spec      runs Program::run_program on a program drawn from Programs,   *)
(*           starting from Program::new.                                   *)
(* SpecLine  runs the loop of run_program from a Program whose tables are  *)
(*           drawn from bounded sets: Program::run_line as a method of a   *)
(*           Program value.                                                *)
(* SpecFree, SpecLiteral, SpecConvert, SpecCast, SpecJump  run the same   *)
(*           loop on the programs that free a variable, that name literals *)
(*           as operands, that convert a Str to a List and back, that      *)
(*           convert between Natural and Int at the ends of their ranges,  *)
(*           and that jump on a condition with and without their label.    *)
(* SpecFair  is Spec with the loop of run_program weakly fair.             *)
(***************************************************************************)
EXTENDS Integers, Sequences, FiniteSets, TLC

VARIABLES
  program,       \* Program.program, as its lines
  vars,          \* Program.vars
  labels,        \* Program.labels
  current_line,  \* Program.current_line
  status,        \* where run_program stands: "new", "running", "halted", "panicked"
  runs,          \* calls of run_program so far
  output,        \* what print! has written
  trace,         \* the indices of the lines this run has executed, in order
  last,          \* the last step: the line, the tables and the read before it, its outcome
  prev,          \* the indices of the lines the run before this one executed
  overflow_checks, \* the build checks integer overflow (debug) or wraps (release)
  jumps          \* the jumps this run has taken so far

state_vars ==
  <<program, vars, labels, current_line, status, runs, output, trace, last, prev,
    overflow_checks, jumps>>

-----------------------------------------------------------------------------
(* Bounds *)

\* longest program enumerated line by line over LineAlphabet
MaxLines == 2
\* number of times run_program may be called on one Program
MaxRuns == 2
\* steps of one run after which the model stops following a looping program
MaxSteps == 8

-----------------------------------------------------------------------------
(* Text *)

Lower == <<"a","b","c","d","e","f","g","h","i","j","k","l","m",
           "n","o","p","q","r","s","t","u","v","w","x","y","z">>
Upper == <<"A","B","C","D","E","F","G","H","I","J","K","L","M",
           "N","O","P","Q","R","S","T","U","V","W","X","Y","Z">>
Digits == <<"0","1","2","3","4","5","6","7","8","9">>

IndexIn(seq, c) ==
  IF \E i \in 1..Len(seq) : seq[i] = c
    THEN CHOOSE i \in 1..Len(seq) : seq[i] = c
    ELSE 0

\* char::to_uppercase on the ASCII letters; every other character is kept
to_uppercase_char(c) ==
  IF IndexIn(Lower, c) > 0 THEN Upper[IndexIn(Lower, c)] ELSE c

to_uppercase(s) == [i \in 1..Len(s) |-> to_uppercase_char(s[i])]

is_ascii_whitespace(c) == c \in {" ", "\t"}

\* str::split_ascii_whitespace: the maximal runs of non-whitespace characters
RECURSIVE split_from(_, _, _)
split_from(line, i, word) ==
  IF i > Len(line)
    THEN IF word = <<>> THEN <<>> ELSE <<word>>
    ELSE IF is_ascii_whitespace(line[i])
           THEN IF word = <<>>
                  THEN split_from(line, i + 1, <<>>)
                  ELSE <<word>> \o split_from(line, i + 1, <<>>)
           ELSE split_from(line, i + 1, Append(word, line[i]))

split_ascii_whitespace(line) == split_from(line, 1, <<>>)
Words(text) == split_ascii_whitespace(text)

\* str::trim
RECURSIVE trim_start(_)
trim_start(s) ==
  IF s # <<>> /\ is_ascii_whitespace(Head(s)) THEN trim_start(Tail(s)) ELSE s

RECURSIVE trim_end(_)
trim_end(s) ==
  IF s # <<>> /\ is_ascii_whitespace(s[Len(s)])
    THEN trim_end(SubSeq(s, 1, Len(s) - 1))
    ELSE s

trim(s) == trim_end(trim_start(s))

\* the words of a line written with single spaces between them
RECURSIVE Join(_)
Join(words) ==
  IF words = <<>> THEN <<>>
  ELSE IF Len(words) = 1 THEN words[1]
  ELSE words[1] \o <<" ">> \o Join(Tail(words))

-----------------------------------------------------------------------------
(* Mnemonics and type names, as text *)

tADD == <<"A","D","D">>
tSUB == <<"S","U","B">>
tMUL == <<"M","U","L">>
tDIV == <<"D","I","V">>
tMOD == <<"M","O","D">>
tROUND == <<"R","O","U","N","D">>
tFLOOR == <<"F","L","O","O","R">>
tCEIL == <<"C","E","I","L">>
tAND == <<"A","N","D">>
tOR == <<"O","R">>
tXOR == <<"X","O","R">>
tNOT == <<"N","O","T">>
tDECL == <<"D","E","C","L">>
tSET == <<"S","E","T">>
tFREE == <<"F","R","E","E">>
tLABEL == <<"L","A","B","E","L">>
tJMP == <<"J","M","P">>
tJEQ == <<"J","E","Q">>
tJGT == <<"J","G","T">>
tJLT == <<"J","L","T">>
tJNE == <<"J","N","E">>
tPRINT == <<"P","R","I","N","T">>
tINPUT == <<"I","N","P","U","T">>
tCONVERT == <<"C","O","N","V","E","R","T">>
tSLICE == <<"S","L","I","C","E">>
tINDEX == <<"I","N","D","E","X">>
tLEN == <<"L","E","N">>
tINSERT == <<"I","N","S","E","R","T">>

tNATURAL == <<"N","A","T","U","R","A","L">>
tINTEGER == <<"I","N","T","E","G","E","R">>
tFLOAT == <<"F","L","O","A","T">>
tCHARACTER == <<"C","H","A","R","A","C","T","E","R">>
tBOOLEAN == <<"B","O","O","L","E","A","N">>
tSTR == <<"S","T","R">>
tLIST == <<"L","I","S","T">>

\* fn command_parameter_num_map: the HashMap<String, u8> it builds
\* (JGT is inserted twice with the same arity; INSERT is not inserted)
command_parameter_num_map ==
  (tADD :> 3) @@ (tSUB :> 3) @@ (tMUL :> 3) @@ (tDIV :> 3) @@ (tMOD :> 3) @@
  (tROUND :> 2) @@ (tFLOOR :> 2) @@ (tCEIL :> 2) @@
  (tAND :> 3) @@ (tOR :> 3) @@ (tXOR :> 3) @@ (tNOT :> 2) @@
  (tDECL :> 2) @@ (tSET :> 2) @@ (tFREE :> 1) @@ (tLABEL :> 1) @@
  (tJMP :> 1) @@ (tJEQ :> 3) @@ (tJGT :> 3) @@ (tJLT :> 3) @@ (tJNE :> 3) @@
  (tPRINT :> 1) @@ (tINPUT :> 1) @@ (tCONVERT :> 2) @@
  (tSLICE :> 4) @@ (tINDEX :> 3) @@ (tLEN :> 2)

-----------------------------------------------------------------------------
(* UnparsedCommand::from_line *)

PanicCommand == [kind |-> "panic"]
NoCommand == [kind |-> "None"]

from_line(line, map) ==
  LET words == split_ascii_whitespace(line) IN
  IF words = <<>>
    THEN PanicCommand                        \* words.get(0).unwrap()
    ELSE IF to_uppercase(words[1]) \in DOMAIN map
      THEN LET command_name == words[1] IN
           IF command_name \notin DOMAIN map
             THEN PanicCommand               \* map.get(&command_name).unwrap()
             ELSE LET param_num == map[command_name] IN
                  IF Len(words) < param_num + 1
                    THEN PanicCommand        \* &words[1..=param_num]
                    ELSE [kind |-> "Some",
                          command_name |-> command_name,
                          parameters |-> SubSeq(words, 2, param_num + 1)]
      ELSE NoCommand

-----------------------------------------------------------------------------
(* f32, as exact rationals [num, den] with den > 0 in lowest terms;        *)
(* den = 0 encodes +inf (num = 1), -inf (num = -1) and NaN (num = 0).      *)
(* Exact for the magnitudes the model draws (below 2^24); -0.0 is 0.0.     *)

I32_MAX == 2147483647
I32_MIN == -I32_MAX - 1

Abs(n) == IF n < 0 THEN -n ELSE n
Sign(n) == IF n < 0 THEN -1 ELSE IF n > 0 THEN 1 ELSE 0

RECURSIVE Gcd(_, _)
Gcd(a, b) == IF b = 0 THEN a ELSE Gcd(b, a % b)

F32(n, d) ==
  IF d = 0 THEN [num |-> Sign(n), den |-> 0]
  ELSE LET g == Gcd(Abs(n), Abs(d))
           s == IF d < 0 THEN -1 ELSE 1
       IN [num |-> s * (n \div g), den |-> s * (d \div g)]

F32_NAN == [num |-> 0, den |-> 0]
is_finite(x) == x.den # 0
is_nan(x) == x.den = 0 /\ x.num = 0

f32_add(x, y) ==
  IF is_finite(x) /\ is_finite(y)
    THEN F32(x.num * y.den + y.num * x.den, x.den * y.den)
  ELSE IF is_nan(x) \/ is_nan(y) THEN F32_NAN
  ELSE IF ~is_finite(x) /\ ~is_finite(y) /\ x.num # y.num THEN F32_NAN
  ELSE IF is_finite(x) THEN y ELSE x

f32_mul(x, y) ==
  IF is_finite(x) /\ is_finite(y) THEN F32(x.num * y.num, x.den * y.den)
  ELSE IF is_nan(x) \/ is_nan(y) \/ x.num = 0 \/ y.num = 0 THEN F32_NAN
  ELSE F32(Sign(x.num) * Sign(y.num), 0)

f32_div(x, y) ==
  IF is_nan(x) \/ is_nan(y) THEN F32_NAN
  ELSE IF is_finite(x) /\ is_finite(y)
    THEN IF y.num = 0 THEN F32(x.num, 0)          \* x/0 = +-inf, 0/0 = NaN
         ELSE F32(x.num * y.den, x.den * y.num)
  ELSE IF ~is_finite(x) /\ ~is_finite(y) THEN F32_NAN
  ELSE IF is_finite(x) THEN F32(0, 1)
  ELSE F32(x.num * (IF y.num < 0 THEN -1 ELSE 1), 0)

\* truncation toward zero of n / d, d > 0
TruncDiv(n, d) == IF n >= 0 THEN n \div d ELSE -((-n) \div d)

\* the % of f32: the remainder has the sign of the dividend
f32_rem(x, y) ==
  IF is_nan(x) \/ is_nan(y) \/ ~is_finite(x) THEN F32_NAN
  ELSE IF ~is_finite(y) THEN x
  ELSE IF y.num = 0 THEN F32_NAN
  ELSE LET n == x.num * y.den
           m == Abs(y.num) * x.den
           q == TruncDiv(n, m)
       IN F32(n - q * m, x.den * y.den)

f32_round(x) ==
  IF ~is_finite(x) THEN x
  ELSE IF x.num >= 0
    THEN F32((2 * x.num + x.den) \div (2 * x.den), 1)
    ELSE F32(-((2 * (-x.num) + x.den) \div (2 * x.den)), 1)

f32_floor(x) == IF ~is_finite(x) THEN x ELSE F32(x.num \div x.den, 1)

f32_ceil(x) == IF ~is_finite(x) THEN x ELSE F32(-((-x.num) \div x.den), 1)

f32_abs(x) == [num |-> Abs(x.num), den |-> x.den]

\* A u32 above i32::MAX is held as the i32 of the same 32 bits (TLC's
\* integers are 32 bits wide): 2^31 + k, for k in 0..I32_MAX, is held as
\* I32_MIN + k, so 2^31 as I32_MIN and u32::MAX as -1.  The operations other
\* than the casts between u32 and i32 are modelled on the naturals up to
\* I32_MAX.
above_i32(k) == I32_MIN + k
is_above_i32(n) == n < 0
excess(n) == n - I32_MIN
U32_MAX == above_i32(I32_MAX)

\* < and <= of two u32
u32_lt(a, b) ==
  IF is_above_i32(a) = is_above_i32(b) THEN a < b ELSE is_above_i32(b)
u32_le(a, b) == a = b \/ u32_lt(a, b)

\* `as u32` / `as i32` of an f32: truncate toward zero, saturate, NaN is 0
f32_as_u32(x) ==
  IF is_nan(x) THEN 0
  ELSE IF ~is_finite(x) THEN (IF x.num > 0 THEN U32_MAX ELSE 0)
  ELSE LET t == TruncDiv(x.num, x.den) IN
       IF t < 0 THEN 0 ELSE t

f32_as_i32(x) ==
  IF is_nan(x) THEN 0
  ELSE IF ~is_finite(x) THEN (IF x.num > 0 THEN I32_MAX ELSE I32_MIN)
  ELSE LET t == TruncDiv(x.num, x.den) IN
       IF t < I32_MIN THEN I32_MIN ELSE IF t > I32_MAX THEN I32_MAX ELSE t

\* `n as i32` of a u32 keeps the 32 bits: n up to i32::MAX keeps its value,
\* 2^31 + k becomes 2^31 + k - 2^32 = i32::MIN + k, a negative i32
u32_as_i32(n) == IF is_above_i32(n) THEN I32_MIN + excess(n) ELSE n

\* `i as u32` of an i32 keeps the 32 bits: a negative i becomes
\* i + 2^32 = 2^31 + (i - i32::MIN)
i32_as_u32(i) == IF i < 0 THEN above_i32(i - I32_MIN) ELSE i

\* i32::abs overflows on i32::MIN: where the build does not check overflow
\* it wraps to i32::MIN (where it does, it panics)
i32_wrapping_abs(i) == IF i = I32_MIN THEN I32_MIN ELSE Abs(i)

\* f32::partial_cmp
f32_partial_cmp(x, y) ==
  IF is_nan(x) \/ is_nan(y) THEN "None"
  ELSE IF ~is_finite(x) \/ ~is_finite(y)
    THEN LET a == IF is_finite(x) THEN 0 ELSE x.num
             b == IF is_finite(y) THEN 0 ELSE y.num
         IN IF a < b THEN "Less" ELSE IF a > b THEN "Greater" ELSE "Equal"
  ELSE LET a == x.num * y.den
           b == y.num * x.den
       IN IF a < b THEN "Less" ELSE IF a > b THEN "Greater" ELSE "Equal"

-----------------------------------------------------------------------------
(* enum Variable *)

VarNatural(n) == [tag |-> "Natural", val |-> n]
VarInt(i) == [tag |-> "Int", val |-> i]
VarFloat(f) == [tag |-> "Float", val |-> f]
VarChar(c) == [tag |-> "Char", val |-> c]
VarBool(b) == [tag |-> "Bool", val |-> b]
VarStr(s) == [tag |-> "Str", val |-> s]
VarList(l) == [tag |-> "List", val |-> l]

\* the value a panicking function "returns"
PANIC == [tag |-> "PANIC", val |-> 0]
is_panic(v) == v.tag = "PANIC"

\* the variants in declaration order: a derived PartialOrd orders values of
\* different variants by this position
Variants == <<"Natural", "Int", "Float", "Char", "Bool", "Str", "List">>
discriminant(v) == IndexIn(Variants, v.tag) - 1

\* the characters of the model in code point order (NUL is written "NUL")
CodePoints ==
  <<"NUL", "\t", "\n", " ", "\"", "'", "+", ",", "-", ".">> \o Digits \o Upper
    \o <<"[", "]">> \o Lower

IntCmp(a, b) == IF a < b THEN "Less" ELSE IF a > b THEN "Greater" ELSE "Equal"

char_cmp(a, b) == IntCmp(IndexIn(CodePoints, a), IndexIn(CodePoints, b))

RECURSIVE str_cmp(_, _)
str_cmp(a, b) ==
  IF a = <<>> /\ b = <<>> THEN "Equal"
  ELSE IF a = <<>> THEN "Less"
  ELSE IF b = <<>> THEN "Greater"
  ELSE IF char_cmp(Head(a), Head(b)) # "Equal" THEN char_cmp(Head(a), Head(b))
  ELSE str_cmp(Tail(a), Tail(b))

\* #[derive(PartialOrd)]: Variable::partial_cmp
RECURSIVE partial_cmp(_, _)
RECURSIVE list_partial_cmp(_, _)
list_partial_cmp(a, b) ==
  IF a = <<>> /\ b = <<>> THEN "Equal"
  ELSE IF a = <<>> THEN "Less"
  ELSE IF b = <<>> THEN "Greater"
  ELSE IF partial_cmp(Head(a), Head(b)) # "Equal"
    THEN partial_cmp(Head(a), Head(b))
  ELSE list_partial_cmp(Tail(a), Tail(b))

\* a comparison that orders values of the same variant only
partial_cmp_same_variant(a, b) ==
  IF a.tag # b.tag THEN "None"
  ELSE IF a.tag \in {"Natural", "Int"} THEN IntCmp(a.val, b.val)
  ELSE IF a.tag = "Float" THEN f32_partial_cmp(a.val, b.val)
  ELSE IF a.tag = "Char" THEN char_cmp(a.val, b.val)
  ELSE IF a.tag = "Bool"
    THEN IntCmp(IF a.val THEN 1 ELSE 0, IF b.val THEN 1 ELSE 0)
  ELSE IF a.tag = "Str" THEN str_cmp(a.val, b.val)
  ELSE list_partial_cmp(a.val, b.val)

partial_cmp(a, b) ==
  IF a.tag # b.tag THEN IntCmp(discriminant(a), discriminant(b))
  ELSE IF a.tag \in {"Natural", "Int"} THEN IntCmp(a.val, b.val)
  ELSE IF a.tag = "Float" THEN f32_partial_cmp(a.val, b.val)
  ELSE IF a.tag = "Char" THEN char_cmp(a.val, b.val)
  ELSE IF a.tag = "Bool"
    THEN IntCmp(IF a.val THEN 1 ELSE 0, IF b.val THEN 1 ELSE 0)
  ELSE IF a.tag = "Str" THEN str_cmp(a.val, b.val)
  ELSE list_partial_cmp(a.val, b.val)

\* #[derive(PartialEq)]: Variable::eq
RECURSIVE variable_eq(_, _)
variable_eq(a, b) ==
  IF a.tag # b.tag THEN FALSE
  ELSE IF a.tag = "Float" THEN f32_partial_cmp(a.val, b.val) = "Equal"
  ELSE IF a.tag = "List"
    THEN /\ Len(a.val) = Len(b.val)
         /\ \A i \in 1..Len(a.val) : variable_eq(a.val[i], b.val[i])
  ELSE a.val = b.val

variable_gt(a, b) == partial_cmp(a, b) = "Greater"
variable_lt(a, b) == partial_cmp(a, b) = "Less"

\* Variable::to_float and Number::from_var followed by Number::to_float
is_number(v) == v.tag \in {"Natural", "Int", "Float"}

to_float(v) ==
  IF v.tag \in {"Natural", "Int"} THEN F32(v.val, 1)
  ELSE IF v.tag = "Float" THEN v.val
  ELSE PANIC

-----------------------------------------------------------------------------
(* Display for Variable (Debug delegates to Display) *)

RECURSIVE nat_to_string(_)
nat_to_string(n) ==
  IF n < 10 THEN <<Digits[n + 1]>>
  ELSE nat_to_string(n \div 10) \o <<Digits[(n % 10) + 1]>>

int_to_string(i) ==
  IF i < 0 THEN <<"-">> \o nat_to_string(-i) ELSE nat_to_string(i)

\* the digits after the decimal point of r / d, r < d; the model holds no
\* Float whose expansion is longer than MaxFracDigits, and marks one as "?"
MaxFracDigits == 4
RECURSIVE frac_to_string(_, _, _)
frac_to_string(r, d, k) ==
  IF r = 0 THEN <<>>
  ELSE IF k = 0 THEN <<"?">>
  ELSE <<Digits[((10 * r) \div d) + 1]>> \o frac_to_string((10 * r) % d, d, k - 1)

float_to_string(x) ==
  IF is_nan(x) THEN <<"N","a","N">>
  ELSE IF ~is_finite(x)
    THEN (IF x.num < 0 THEN <<"-">> ELSE <<>>) \o <<"i","n","f">>
  ELSE LET a == Abs(x.num)
           whole == nat_to_string(a \div x.den)
           frac == frac_to_string(a % x.den, x.den, MaxFracDigits)
       IN (IF x.num < 0 THEN <<"-">> ELSE <<>>) \o whole
            \o (IF frac = <<>> THEN <<>> ELSE <<".">> \o frac)

RECURSIVE to_string(_)
RECURSIVE list_to_string(_)
\* the elements of a Vec under {:?}, separated by ", "
list_to_string(l) ==
  IF l = <<>> THEN <<>>
  ELSE IF Len(l) = 1 THEN to_string(l[1])
  ELSE to_string(l[1]) \o <<",", " ">> \o list_to_string(Tail(l))

to_string(v) ==
  IF v.tag = "Natural" THEN nat_to_string(v.val)
  ELSE IF v.tag = "Int" THEN int_to_string(v.val)
  ELSE IF v.tag = "Float" THEN float_to_string(v.val)
  ELSE IF v.tag = "Char" THEN <<v.val>>
  ELSE IF v.tag = "Bool"
    THEN (IF v.val THEN <<"t","r","u","e">> ELSE <<"f","a","l","s","e">>)
  ELSE IF v.tag = "Str" THEN v.val
  ELSE <<"[">> \o list_to_string(v.val) \o <<"]">>

-----------------------------------------------------------------------------
(* str::parse for u32, i32 and f32: [ok, val] *)

ParseErr == [ok |-> FALSE]
Parsed(v) == [ok |-> TRUE, val |-> v]

is_digit(c) == IndexIn(Digits, c) > 0
all_digits(s) == s # <<>> /\ \A i \in 1..Len(s) : is_digit(s[i])

RECURSIVE digits_value(_)
digits_value(s) ==
  IF s = <<>> THEN 0
  ELSE 10 * digits_value(SubSeq(s, 1, Len(s) - 1)) + (IndexIn(Digits, s[Len(s)]) - 1)

\* the model parses at most MaxDigits digits (TLC's integers are 32 bits wide)
MaxDigits == 9

parse_u32(s) ==
  LET body == IF s # <<>> /\ Head(s) = "+" THEN Tail(s) ELSE s IN
  IF all_digits(body) /\ Len(body) <= MaxDigits
    THEN Parsed(digits_value(body))
    ELSE ParseErr

parse_i32(s) ==
  LET signed == s # <<>> /\ Head(s) \in {"+", "-"}
      body == IF signed THEN Tail(s) ELSE s
  IN IF all_digits(body) /\ Len(body) <= MaxDigits
       THEN Parsed(IF signed /\ Head(s) = "-"
                     THEN -digits_value(body) ELSE digits_value(body))
       ELSE ParseErr

RECURSIVE Pow10(_)
Pow10(k) == IF k = 0 THEN 1 ELSE 10 * Pow10(k - 1)

\* decimal text without exponent: [sign] digits [ "." digits ], "inf", "NaN"
parse_f32(s) ==
  LET signed == s # <<>> /\ Head(s) \in {"+", "-"}
      neg == signed /\ Head(s) = "-"
      body == IF signed THEN Tail(s) ELSE s
      dot == IndexIn(body, ".")
      whole == IF dot = 0 THEN body ELSE SubSeq(body, 1, dot - 1)
      frac == IF dot = 0 THEN <<>> ELSE SubSeq(body, dot + 1, Len(body))
      digits_ok(t) == \A i \in 1..Len(t) : is_digit(t[i])
  IN IF body = <<"i","n","f">> THEN Parsed(F32(IF neg THEN -1 ELSE 1, 0))
     ELSE IF body = <<"N","a","N">> THEN Parsed(F32_NAN)
     ELSE IF /\ digits_ok(whole) /\ digits_ok(frac)
             /\ Len(whole) + Len(frac) > 0
             /\ Len(whole) + Len(frac) <= MaxDigits
       THEN Parsed(F32((IF neg THEN -1 ELSE 1)
                         * (digits_value(whole) * Pow10(Len(frac)) + digits_value(frac)),
                       Pow10(Len(frac))))
     ELSE ParseErr

-----------------------------------------------------------------------------
(* Program::parse_literal *)

starts_with(s, c) == s # <<>> /\ Head(s) = c

\* str::split_terminator(','): the pieces between commas, without a final
\* empty piece
RECURSIVE split_comma(_, _)
split_comma(s, piece) ==
  IF s = <<>> THEN (IF piece = <<>> THEN <<>> ELSE <<piece>>)
  ELSE IF Head(s) = "," THEN <<piece>> \o split_comma(Tail(s), <<>>)
  ELSE split_comma(Tail(s), Append(piece, Head(s)))

split_terminator(s) == split_comma(s, <<>>)

RECURSIVE parse_literal(_, _)
parse_literal(table, token) ==
  LET literal == trim(token) IN
  IF literal \in DOMAIN table THEN table[literal]
  ELSE IF starts_with(literal, "-")
    THEN (IF parse_i32(literal).ok THEN VarInt(parse_i32(literal).val) ELSE PANIC)
  ELSE IF starts_with(literal, "+")
    THEN (IF parse_i32(Tail(literal)).ok
            THEN VarInt(parse_i32(Tail(literal)).val) ELSE PANIC)
  ELSE IF starts_with(literal, "\"") THEN VarStr(Tail(literal))
  ELSE IF literal = <<"T","R","U","E">> THEN VarBool(TRUE)
  ELSE IF literal = <<"F","A","L","S","E">> THEN VarBool(FALSE)
  ELSE IF starts_with(literal, "[")
    THEN LET items == split_terminator(literal) IN
         \* the first item still starts with '[': when it is the whole
         \* literal the recursion never ends (stack overflow)
         IF Len(items) = 1 /\ trim(items[1]) = literal THEN PANIC
         ELSE LET parsed == [i \in 1..Len(items) |-> parse_literal(table, items[i])] IN
              IF \E i \in 1..Len(items) : is_panic(parsed[i]) THEN PANIC
              ELSE VarList(parsed)
  ELSE IF starts_with(literal, "'")
    THEN (IF Len(literal) >= 3 THEN VarChar(literal[3]) ELSE PANIC)
  ELSE IF parse_u32(literal).ok THEN VarNatural(parse_u32(literal).val)
  ELSE PANIC

-----------------------------------------------------------------------------
(* impl Command: each function maps the destination's value (and the       *)
(* resolved operands) to the destination's new value, or to PANIC          *)

\* the cast of an arithmetic result into a Natural, Int or Float destination
cast_round_abs(location, f) ==
  IF location.tag = "Natural" THEN VarNatural(f32_as_u32(f32_abs(f32_round(f))))
  ELSE IF location.tag = "Int" THEN VarInt(f32_as_i32(f32_round(f)))
  ELSE IF location.tag = "Float" THEN VarFloat(f)
  ELSE PANIC

add(location, op1, op2) ==
  IF location.tag = "List"
    THEN IF op1.tag = "List"
           THEN IF op2.tag = "List"
                  THEN VarList(op1.val \o op2.val)
                  ELSE VarList(Append(op1.val, op2))
           ELSE VarList(<<op1, op2>>)
  ELSE IF location.tag = "Str"
    THEN VarStr(to_string(op1) \o to_string(op2))
  ELSE IF location.tag \in {"Natural", "Int", "Float"}
    THEN IF is_number(op1) /\ is_number(op2)
           THEN cast_round_abs(location, f32_add(to_float(op1), to_float(op2)))
           ELSE PANIC
  ELSE PANIC

\* a SUB that stores the cast of the difference
sub_difference(location, op1, op2) ==
  cast_round_abs(location, f32_add(op1, [num |-> -op2.num, den |-> op2.den]))

\* sub, mul, div, modulo take Numbers: op1, op2 are f32 projections
sub(location, op1, op2) == cast_round_abs(location, f32_add(op1, op2))

mul(location, op1, op2) == cast_round_abs(location, f32_mul(op1, op2))

div(location, op1, op2) == cast_round_abs(location, f32_div(op1, op2))

modulo(location, op1, op2) == cast_round_abs(location, f32_rem(op1, op2))

round(location, op1) ==
  IF location.tag = "Natural" THEN VarNatural(f32_as_u32(f32_abs(f32_round(op1))))
  ELSE IF location.tag = "Int" THEN VarInt(f32_as_i32(f32_round(op1)))
  ELSE IF location.tag = "Float" THEN VarFloat(f32_round(op1))
  ELSE PANIC

floor(location, op1) ==
  IF location.tag = "Natural" THEN VarNatural(f32_as_u32(f32_abs(f32_floor(op1))))
  ELSE IF location.tag = "Int" THEN VarInt(f32_as_i32(f32_floor(op1)))
  ELSE IF location.tag = "Float" THEN VarFloat(f32_floor(op1))
  ELSE PANIC

ceil(location, op1) ==
  IF location.tag = "Natural" THEN VarNatural(f32_as_u32(f32_ceil(op1)))
  ELSE IF location.tag = "Int" THEN VarInt(f32_as_i32(f32_ceil(op1)))
  ELSE IF location.tag = "Float" THEN VarFloat(f32_ceil(op1))
  ELSE PANIC

and(location, op1, op2) ==
  IF location.tag = "Bool" THEN VarBool(op1 /\ op2) ELSE PANIC

or(location, op1, op2) ==
  IF location.tag = "Bool" THEN VarBool(op1 \/ op2) ELSE PANIC

xor(location, op1, op2) ==
  IF location.tag = "Bool" THEN VarBool(op1 # op2) ELSE PANIC

not(location, op1) ==
  IF location.tag = "Bool" THEN VarBool(~op1) ELSE PANIC

\* a SET that stores whatever it is given
set_overwriting(location, literal) == literal

set(location, literal) ==
  IF location.tag = literal.tag
    THEN [tag |-> location.tag, val |-> literal.val]
    ELSE PANIC

\* the result of reader.read_line(s) is dropped: a failed read leaves the
\* cleared string with whatever was read; a destination that is no Str is
\* left alone
input(location, read) ==
  IF location.tag = "Str" THEN VarStr(read.text) ELSE location

\* a CONVERT that stores its source as it is, tag and payload
convert_retagging(location, variable) == variable

convert(location, variable) ==
  IF location.tag = "Bool" THEN
    VarBool(IF variable.tag = "Bool" THEN variable.val
            ELSE IF variable.tag = "Char" THEN variable.val \notin {"f", "F"}
            ELSE IF variable.tag = "Float"
              THEN f32_partial_cmp(variable.val, F32(0, 1)) # "Equal"
            ELSE IF variable.tag \in {"Int", "Natural"} THEN variable.val # 0
            ELSE variable.val # <<>>)
  ELSE IF location.tag = "Char" THEN
    IF variable.tag = "Bool" THEN VarChar(IF variable.val THEN "t" ELSE "f")
    ELSE IF variable.tag = "Char" THEN VarChar(variable.val)
    ELSE PANIC
  ELSE IF location.tag = "Float" THEN
    IF variable.tag = "Bool" THEN VarFloat(F32(IF variable.val THEN 1 ELSE 0, 1))
    ELSE IF variable.tag = "Float" THEN VarFloat(variable.val)
    ELSE IF variable.tag \in {"Int", "Natural"} THEN VarFloat(F32(variable.val, 1))
    ELSE IF variable.tag = "Str"
      THEN (IF parse_f32(variable.val).ok
              THEN VarFloat(parse_f32(variable.val).val) ELSE PANIC)
    ELSE PANIC
  ELSE IF location.tag = "Int" THEN
    IF variable.tag = "Bool" THEN VarInt(IF variable.val THEN 1 ELSE 0)
    ELSE IF variable.tag = "Float" THEN VarInt(f32_as_i32(f32_round(variable.val)))
    ELSE IF variable.tag = "Int" THEN VarInt(variable.val)
    ELSE IF variable.tag = "Natural" THEN VarInt(u32_as_i32(variable.val))
    ELSE IF variable.tag = "Str"
      THEN (IF parse_i32(variable.val).ok
              THEN VarInt(parse_i32(variable.val).val) ELSE PANIC)
    ELSE PANIC
  ELSE IF location.tag = "List" THEN
    IF variable.tag = "List" THEN VarList(variable.val)
    ELSE IF variable.tag = "Str"
      THEN VarList([i \in 1..Len(variable.val) |-> VarChar(variable.val[i])])
    ELSE VarList(<<variable>>)
  ELSE IF location.tag = "Natural" THEN
    IF variable.tag = "Float"
      THEN VarNatural(f32_as_u32(f32_abs(f32_round(variable.val))))
    ELSE IF variable.tag = "Int"
      THEN (IF variable.val = I32_MIN /\ overflow_checks THEN PANIC
            ELSE VarNatural(i32_as_u32(i32_wrapping_abs(variable.val))))
    ELSE IF variable.tag = "Natural" THEN VarNatural(variable.val)
    ELSE IF variable.tag = "Bool" THEN VarNatural(IF variable.val THEN 1 ELSE 0)
    ELSE IF variable.tag = "Str"
      THEN (IF parse_u32(variable.val).ok
              THEN VarNatural(parse_u32(variable.val).val) ELSE PANIC)
    ELSE PANIC
  ELSE VarStr(to_string(variable))

slice(location, list, start, end) ==
  IF location.tag = "List" /\ u32_le(start, end) /\ u32_le(end, Len(list))
    THEN VarList(SubSeq(list, start + 1, end))
    ELSE PANIC

index(location, list, i) ==
  IF u32_lt(i, Len(list)) THEN set(location, list[i + 1]) ELSE PANIC

len(location, list) ==
  IF location.tag = "Float" THEN VarFloat(F32(Len(list), 1))
  ELSE IF location.tag = "Int" THEN VarInt(Len(list))
  ELSE IF location.tag = "Natural" THEN VarNatural(Len(list))
  ELSE PANIC

\* Command::insert works on the Vec of a List destination: location is the
\* Vec, the result the List that holds it afterwards
insert(location, i, item) ==
  IF i = Len(location) THEN VarList(Append(location, item))
  ELSE IF u32_lt(i, Len(location))
    THEN VarList(SubSeq(location, 1, i) \o <<item>> \o SubSeq(location, i + 1, Len(location)))
  ELSE PANIC

jeq(label, o1, o2) ==
  IF variable_eq(o1, o2) THEN [kind |-> "Jump", label |-> label] ELSE [kind |-> "Nothing"]

jgt(label, o1, o2) ==
  IF variable_gt(o1, o2) THEN [kind |-> "Jump", label |-> label] ELSE [kind |-> "Nothing"]

jlt(label, o1, o2) ==
  IF variable_lt(o1, o2) THEN [kind |-> "Jump", label |-> label] ELSE [kind |-> "Nothing"]

jne(label, o1, o2) ==
  IF ~variable_eq(o1, o2) THEN [kind |-> "Jump", label |-> label] ELSE [kind |-> "Nothing"]

-----------------------------------------------------------------------------
(* impl Program *)

EmptyMap == [k \in {} |-> {}]

insert_entry(table, k, v) == [x \in DOMAIN table \cup {k} |-> IF x = k THEN v ELSE table[x]]
remove_entry(table, k) == [x \in DOMAIN table \ {k} |-> table[x]]

\* get_var / get_mut_var unwrap the lookup
has_var(table, name) == name \in DOMAIN table
\* get_num_var
has_num_var(table, name) == has_var(table, name) /\ is_number(table[name])
get_float_var(table, name) == to_float(table[name])
get_nat_var(table, name) == f32_as_u32(f32_abs(f32_round(to_float(table[name]))))
\* get_bool_var, get_str_var, get_list_var
has_tag_var(table, name, tag) == has_var(table, name) /\ table[name].tag = tag
\* get_label
has_label(table, name) == name \in DOMAIN table

Nothing == [kind |-> "Nothing"]
PanicLine == [panic |-> TRUE]
\* a command that ran: the variable table after it, its response, what it printed
Ran(table, resp, text) == [panic |-> FALSE, vars |-> table, resp |-> resp, printed |-> text]

\* a command that rewrites its destination p[1] with value v
Store(table, p, v) ==
  IF is_panic(v) THEN PanicLine ELSE Ran([table EXCEPT ![p[1]] = v], Nothing, <<>>)

\* the inner match of run_line: the command built from the parameters, run
dispatch(self, command, read) ==
  LET name == command.command_name
      p == command.parameters
      v == self.vars
      l == self.labels
  IN
  IF name = tADD THEN
    IF has_var(v, p[2]) /\ has_var(v, p[3]) /\ has_var(v, p[1])
      THEN Store(v, p, add(v[p[1]], v[p[2]], v[p[3]])) ELSE PanicLine
  ELSE IF name = tSUB THEN
    IF has_num_var(v, p[2]) /\ has_num_var(v, p[3]) /\ has_var(v, p[1])
      THEN Store(v, p, sub(v[p[1]], to_float(v[p[2]]), to_float(v[p[3]]))) ELSE PanicLine
  ELSE IF name = tMUL THEN
    IF has_num_var(v, p[2]) /\ has_num_var(v, p[3]) /\ has_var(v, p[1])
      THEN Store(v, p, mul(v[p[1]], to_float(v[p[2]]), to_float(v[p[3]]))) ELSE PanicLine
  ELSE IF name = tDIV THEN
    IF has_num_var(v, p[2]) /\ has_num_var(v, p[3]) /\ has_var(v, p[1])
      THEN Store(v, p, div(v[p[1]], to_float(v[p[2]]), to_float(v[p[3]]))) ELSE PanicLine
  ELSE IF name = tMOD THEN
    IF has_num_var(v, p[2]) /\ has_num_var(v, p[3]) /\ has_var(v, p[1])
      THEN Store(v, p, modulo(v[p[1]], to_float(v[p[2]]), to_float(v[p[3]]))) ELSE PanicLine
  ELSE IF name = tROUND THEN
    IF has_num_var(v, p[2]) /\ has_var(v, p[1])
      THEN Store(v, p, round(v[p[1]], get_float_var(v, p[2]))) ELSE PanicLine
  ELSE IF name = tFLOOR THEN
    IF has_num_var(v, p[2]) /\ has_var(v, p[1])
      THEN Store(v, p, floor(v[p[1]], get_float_var(v, p[2]))) ELSE PanicLine
  ELSE IF name = tCEIL THEN
    IF has_num_var(v, p[2]) /\ has_var(v, p[1])
      THEN Store(v, p, ceil(v[p[1]], get_float_var(v, p[2]))) ELSE PanicLine
  ELSE IF name = tAND THEN
    IF has_tag_var(v, p[2], "Bool") /\ has_tag_var(v, p[3], "Bool") /\ has_var(v, p[1])
      THEN Store(v, p, and(v[p[1]], v[p[2]].val, v[p[3]].val)) ELSE PanicLine
  ELSE IF name = tOR THEN
    IF has_tag_var(v, p[2], "Bool") /\ has_tag_var(v, p[3], "Bool") /\ has_var(v, p[1])
      THEN Store(v, p, or(v[p[1]], v[p[2]].val, v[p[3]].val)) ELSE PanicLine
  ELSE IF name = tXOR THEN
    IF has_tag_var(v, p[2], "Bool") /\ has_tag_var(v, p[3], "Bool") /\ has_var(v, p[1])
      THEN Store(v, p, xor(v[p[1]], v[p[2]].val, v[p[3]].val)) ELSE PanicLine
  ELSE IF name = tNOT THEN
    IF has_tag_var(v, p[2], "Bool") /\ has_var(v, p[1])
      THEN Store(v, p, not(v[p[1]], v[p[2]].val)) ELSE PanicLine
  ELSE IF name = tDECL THEN
    \* Command::Label(command.parameters[0]).run()
    Ran(v, [kind |-> "Label", name |-> p[1]], <<>>)
  ELSE IF name = tSET THEN
    IF ~is_panic(parse_literal(v, p[2])) /\ has_var(v, p[1])
      THEN Store(v, p, set(v[p[1]], parse_literal(v, p[2]))) ELSE PanicLine
  ELSE IF name = tFREE THEN
    Ran(v, [kind |-> "Free", name |-> p[1]], <<>>)
  ELSE IF name = tLABEL THEN
    Ran(v, [kind |-> "Label", name |-> p[1]], <<>>)
  ELSE IF name = tJMP THEN
    IF has_label(l, p[1])
      THEN Ran(v, [kind |-> "Jump", label |-> l[p[1]]], <<>>) ELSE PanicLine
  ELSE IF name = tJEQ THEN
    IF has_label(l, p[1]) /\ has_var(v, p[2]) /\ has_var(v, p[3])
      THEN Ran(v, jeq(l[p[1]], v[p[2]], v[p[3]]), <<>>) ELSE PanicLine
  ELSE IF name = tJNE THEN
    IF has_label(l, p[1]) /\ has_var(v, p[2]) /\ has_var(v, p[3])
      THEN Ran(v, jne(l[p[1]], v[p[2]], v[p[3]]), <<>>) ELSE PanicLine
  ELSE IF name = tJGT THEN
    IF has_label(l, p[1]) /\ has_var(v, p[2]) /\ has_var(v, p[3])
      THEN Ran(v, jgt(l[p[1]], v[p[2]], v[p[3]]), <<>>) ELSE PanicLine
  ELSE IF name = tJLT THEN
    \* the JLT arm builds Command::Jeq
    IF has_label(l, p[1]) /\ has_var(v, p[2]) /\ has_var(v, p[3])
      THEN Ran(v, jeq(l[p[1]], v[p[2]], v[p[3]]), <<>>) ELSE PanicLine
  ELSE IF name = tPRINT THEN
    IF has_tag_var(v, p[1], "Str") THEN Ran(v, Nothing, v[p[1]].val) ELSE PanicLine
  ELSE IF name = tINPUT THEN
    IF has_var(v, p[1]) THEN Store(v, p, input(v[p[1]], read)) ELSE PanicLine
  ELSE IF name = tCONVERT THEN
    IF has_var(v, p[2]) /\ has_var(v, p[1])
      THEN Store(v, p, convert(v[p[1]], v[p[2]])) ELSE PanicLine
  ELSE IF name = tSLICE THEN
    IF /\ has_tag_var(v, p[2], "List") /\ has_num_var(v, p[3]) /\ has_num_var(v, p[4])
       /\ has_var(v, p[1])
      THEN Store(v, p, slice(v[p[1]], v[p[2]].val, get_nat_var(v, p[3]), get_nat_var(v, p[4])))
      ELSE PanicLine
  ELSE IF name = tINDEX THEN
    IF has_tag_var(v, p[2], "List") /\ has_num_var(v, p[3]) /\ has_var(v, p[1])
      THEN Store(v, p, index(v[p[1]], v[p[2]].val, get_nat_var(v, p[3]))) ELSE PanicLine
  ELSE IF name = tLEN THEN
    IF has_tag_var(v, p[2], "List") /\ has_var(v, p[1])
      THEN Store(v, p, len(v[p[1]], v[p[2]].val)) ELSE PanicLine
  ELSE IF name = tINSERT THEN
    IF has_num_var(v, p[2]) /\ has_var(v, p[3]) /\ has_tag_var(v, p[1], "List")
      THEN Store(v, p, insert(v[p[1]].val, get_nat_var(v, p[2]), v[p[3]]))
      ELSE PanicLine
  ELSE PanicLine

\* the value a Declare response inserts for a VarType
zero_value(t) ==
  IF t = "Boolean" THEN VarBool(FALSE)
  ELSE IF t = "Character" THEN VarChar("NUL")
  ELSE IF t = "Float" THEN VarFloat(F32(0, 1))
  ELSE IF t = "Integer" THEN VarInt(0)
  ELSE IF t = "List" THEN VarList(<<>>)
  ELSE IF t = "Natural" THEN VarNatural(0)
  ELSE VarStr(<<>>)

\* a jump that lands so that the label's own line is run again
jump_target_before_label(label) == label - 1

\* CommandResponse::Jump(label): the value current_line takes
jump_target(label) == label

\* the outer match of run_line: the response applied to the Program
apply_response(self, ran) ==
  LET resp == ran.resp
      after == [vars |-> ran.vars, labels |-> self.labels,
                current_line |-> self.current_line]
  IN
  IF resp.kind = "Declare"
    THEN [panic |-> FALSE,
          self |-> [after EXCEPT !.vars = insert_entry(ran.vars, resp.name, zero_value(resp.type))]]
  ELSE IF resp.kind = "Free"
    THEN IF has_var(ran.vars, resp.name)
           THEN [panic |-> FALSE, self |-> [after EXCEPT !.vars = remove_entry(ran.vars, resp.name)]]
           ELSE [panic |-> TRUE]
  ELSE IF resp.kind = "Jump"
    THEN [panic |-> FALSE, self |-> [after EXCEPT !.current_line = jump_target(resp.label)]]
  ELSE IF resp.kind = "Label"
    THEN [panic |-> FALSE,
          self |-> [after EXCEPT !.labels = insert_entry(self.labels, resp.name, self.current_line)]]
  ELSE [panic |-> FALSE, self |-> after]

\* a run_line whose conditional jumps look their label up only when the
\* condition holds
run_line_resolving_label_late(self, line, map, read) ==
  LET command == from_line(line, map) IN
  IF command.kind = "panic" THEN [panic |-> TRUE]
  ELSE IF command.kind = "None"
    THEN [panic |-> FALSE, self |-> self, resp |-> "None", printed |-> <<>>]
  ELSE LET late == /\ command.command_name \in {tJEQ, tJNE, tJGT, tJLT}
                   /\ ~has_label(self.labels, command.parameters[1])
           given == IF late
                      THEN [self EXCEPT !.labels =
                              insert_entry(self.labels, command.parameters[1], 0)]
                      ELSE self
           ran == dispatch(given, command, read)
       IN
       IF ran.panic THEN [panic |-> TRUE]
       ELSE IF late
         THEN IF ran.resp.kind = "Nothing"
                THEN [panic |-> FALSE, self |-> self, resp |-> "Nothing", printed |-> <<>>]
                ELSE [panic |-> TRUE]
       ELSE LET applied == apply_response(self, ran) IN
            IF applied.panic THEN [panic |-> TRUE]
            ELSE [panic |-> FALSE, self |-> applied.self,
                  resp |-> ran.resp.kind, printed |-> ran.printed]

\* Program::run_line: [panic, self, resp, printed]; resp is "None" for a line
\* that is no command
run_line(self, line, map, read) ==
  LET command == from_line(line, map) IN
  IF command.kind = "panic" THEN [panic |-> TRUE]
  ELSE IF command.kind = "None"
    THEN [panic |-> FALSE, self |-> self, resp |-> "None", printed |-> <<>>]
  ELSE LET ran == dispatch(self, command, read) IN
       IF ran.panic THEN [panic |-> TRUE]
       ELSE LET applied == apply_response(self, ran) IN
            IF applied.panic THEN [panic |-> TRUE]
            ELSE [panic |-> FALSE, self |-> applied.self,
                  resp |-> ran.resp.kind, printed |-> ran.printed]

-----------------------------------------------------------------------------
(* The programs and inputs the model draws *)

nx == <<"x">>
ny == <<"y">>
nL == <<"L">>
nEND == <<"E","N","D">>
t5 == <<"5">>
t3 == <<"3">>

TypeNames == {tNATURAL, tINTEGER, tFLOAT, tCHARACTER, tBOOLEAN, tSTR, tLIST}

\* the lines Spec builds its programs from
LineAlphabet ==
  {Join(<<tDECL, nx, t>>) : t \in TypeNames} \cup
  { Join(<<tDECL, nL, tNATURAL>>),
    Join(<<tSET, nx, t5>>),
    Join(<<tADD, nx, nx, nx>>),
    Join(<<tFREE, nx>>),
    Join(<<tLABEL, nL>>),
    Join(<<tJMP, nL>>),
    Join(<<tJNE, nL, nx, nx>>),
    Join(<<<<"l","a","b","e","l">>, nL>>),
    Join(<<<<"J","m","p">>, nL>>),
    Join(<<<<"H","E","L","L","O">>, nx>>),
    Join(<<tINSERT, nx, nx, nx>>),
    Join(<<tLABEL>>),
    <<>>,
    <<" ", "\t">> }

\* the programs of the documented scenarios
AddScenario ==
  << Join(<<tDECL, nx, tNATURAL>>), Join(<<tSET, nx, t5>>),
     Join(<<tDECL, ny, tNATURAL>>), Join(<<tSET, ny, t3>>),
     Join(<<tADD, nx, nx, ny>>) >>

ForwardJump == << Join(<<tJMP, nEND>>), Join(<<tLABEL, nEND>>) >>

BackwardJump ==
  << Join(<<tLABEL, nL>>), Join(<<<<"H","E","L","L","O">>>>), Join(<<tJMP, nL>>) >>

DeclThenJump ==
  << Join(<<tDECL, nEND, tNATURAL>>), Join(<<tJMP, nEND>>), Join(<<tLABEL, nEND>>) >>

LateLabel ==
  << Join(<<<<"H","E","L","L","O">>>>), Join(<<tLABEL, nL>>),
     Join(<<<<"H","E","L","L","O">>>>), Join(<<tJMP, nL>>), <<>> >>

\* a label registered twice, and a label registered and then named by a DECL
Relabel ==
  << Join(<<tLABEL, nL>>), Join(<<<<"H","E","L","L","O">>>>), Join(<<tLABEL, nL>>),
     Join(<<tJMP, nL>>) >>

LabelDeclJump ==
  << Join(<<tLABEL, nL>>), Join(<<tDECL, nL, tNATURAL>>),
     Join(<<<<"H","E","L","L","O">>>>), Join(<<tJMP, nL>>) >>

Scenarios ==
  {AddScenario, ForwardJump, BackwardJump, DeclThenJump, LateLabel, Relabel, LabelDeclJump}

RECURSIVE SeqsUpTo(_, _)
SeqsUpTo(S, n) ==
  IF n = 0 THEN {<<>>}
  ELSE LET shorter == SeqsUpTo(S, n - 1) IN
       shorter \cup {Append(p, x) : p \in {q \in shorter : Len(q) = n - 1}, x \in S}

Programs == Scenarios \cup SeqsUpTo(LineAlphabet, MaxLines)

\* what stdin gives an INPUT: a line, end of file, or an error
Reads ==
  { [ok |-> TRUE, text |-> <<"h","i","\n">>],
    [ok |-> TRUE, text |-> <<>>],
    [ok |-> FALSE, text |-> <<>>] }

\* stdin is read by Command::input alone: every other line runs without it
NoRead == [ok |-> TRUE, text |-> <<>>]
ReadsOf(line) ==
  IF Words(line) # <<>> /\ Words(line)[1] = tINPUT THEN Reads ELSE {NoRead}

-----------------------------------------------------------------------------
(* Program::new and Program::run_program *)

NoStep == [line |-> -1, text |-> <<>>, vars |-> EmptyMap, labels |-> EmptyMap,
           read |-> NoRead, outcome |-> "none", resp |-> "None"]

\* Program::new(program)
Init ==
  /\ program \in Programs
  /\ vars = EmptyMap
  /\ labels = EmptyMap
  /\ current_line = 0
  /\ status = "new"
  /\ runs = 0
  /\ output = <<>>
  /\ trace = <<>>
  /\ last = NoStep
  /\ prev = <<>>
  /\ overflow_checks \in BOOLEAN
  /\ jumps = 0

\* run_program_begin without `self.labels = HashMap::new()`
run_program_begin_keeping_labels ==
  /\ status \in {"new", "halted"}
  /\ runs < MaxRuns
  /\ current_line' = 0
  /\ vars' = EmptyMap
  /\ status' = "running"
  /\ runs' = runs + 1
  /\ trace' = <<>>
  /\ last' = NoStep
  /\ prev' = trace
  /\ jumps' = 0
  /\ UNCHANGED <<program, output, labels, overflow_checks>>

\* run_program up to its loop: the tables and the pointer are reset
run_program_begin ==
  /\ status \in {"new", "halted"}
  /\ runs < MaxRuns
  /\ current_line' = 0
  /\ labels' = EmptyMap
  /\ vars' = EmptyMap
  /\ status' = "running"
  /\ runs' = runs + 1
  /\ trace' = <<>>
  /\ last' = NoStep
  /\ prev' = trace
  /\ jumps' = 0
  /\ UNCHANGED <<program, output, overflow_checks>>

\* a turn of the loop that adds two to current_line
run_program_step_skipping ==
  /\ status = "running"
  /\ current_line < Len(program)
  /\ Len(trace) < MaxSteps
  /\ \E read \in ReadsOf(program[current_line + 1]) :
       LET self == [vars |-> vars, labels |-> labels, current_line |-> current_line]
           line == program[current_line + 1]
           r == run_line(self, line, command_parameter_num_map, read)
           step == [line |-> current_line, text |-> line, vars |-> vars,
                    labels |-> labels, read |-> read, outcome |-> "ok",
                    resp |-> "None"]
       IN /\ trace' = Append(trace, current_line)
          /\ IF r.panic
               THEN /\ status' = "panicked"
                    /\ last' = [step EXCEPT !.outcome = "panic"]
                    /\ UNCHANGED <<vars, labels, current_line, output, jumps>>
               ELSE /\ vars' = r.self.vars
                    /\ labels' = r.self.labels
                    /\ current_line' = r.self.current_line + 2
                    /\ output' = output \o r.printed
                    /\ last' = [step EXCEPT !.resp = r.resp]
                    /\ jumps' = (IF r.resp = "Jump" THEN jumps + 1 ELSE jumps)
                    /\ UNCHANGED status
  /\ UNCHANGED <<program, runs, prev, overflow_checks>>

\* one turn of the loop: run_line on the current line, then current_line += 1
run_program_step ==
  /\ status = "running"
  /\ current_line < Len(program)
  /\ Len(trace) < MaxSteps
  /\ \E read \in ReadsOf(program[current_line + 1]) :
       LET self == [vars |-> vars, labels |-> labels, current_line |-> current_line]
           line == program[current_line + 1]
           r == run_line(self, line, command_parameter_num_map, read)
           step == [line |-> current_line, text |-> line, vars |-> vars,
                    labels |-> labels, read |-> read, outcome |-> "ok",
                    resp |-> "None"]
       IN /\ trace' = Append(trace, current_line)
          /\ IF r.panic
               THEN /\ status' = "panicked"
                    /\ last' = [step EXCEPT !.outcome = "panic"]
                    /\ UNCHANGED <<vars, labels, current_line, output, jumps>>
               ELSE /\ vars' = r.self.vars
                    /\ labels' = r.self.labels
                    /\ current_line' = r.self.current_line + 1
                    /\ output' = output \o r.printed
                    /\ last' = [step EXCEPT !.resp = r.resp]
                    /\ jumps' = (IF r.resp = "Jump" THEN jumps + 1 ELSE jumps)
                    /\ UNCHANGED status
  /\ UNCHANGED <<program, runs, prev, overflow_checks>>

\* the loop's condition fails: run_program returns
run_program_end ==
  /\ status = "running"
  /\ current_line >= Len(program)
  /\ status' = "halted"
  /\ UNCHANGED <<program, vars, labels, current_line, runs, output, trace, last, prev,
                 overflow_checks, jumps>>

Next == run_program_begin \/ run_program_step \/ run_program_end

Spec == Init /\ [][Next]_state_vars

\* a turn of the loop is possible
TurnPossible == status = "running" /\ current_line < Len(program) /\ Len(trace) < MaxSteps

\* a turn of the loop, by what it does to trace: a step of Spec is such a
\* step exactly when it is a run_program_step
LoopTurn == TurnPossible /\ trace' = Append(trace, current_line)

\* the loop of run_program goes on while it can: a turn that is possible is
\* taken, and the loop is left when its condition fails
SpecFair == Spec /\ WF_trace(LoopTurn) /\ WF_state_vars(run_program_end)

-----------------------------------------------------------------------------
(* run_line on a Program that holds variables: the loop of run_program     *)
(* from a variable table drawn from Tables                                 *)

nd == <<"d">>
na == <<"a">>
nb == <<"b">>
nz == <<"z">>

\* the values of the operands a and b
Values ==
  { VarNatural(0), VarNatural(2), VarInt(-2), VarInt(2),
    VarFloat(F32(-37, 10)), VarFloat(F32(5, 2)),
    VarChar("a"), VarChar("f"), VarBool(TRUE), VarBool(FALSE),
    VarStr(<<>>), VarStr(<<"h","i">>),
    VarList(<<>>), VarList(<<VarNatural(1), VarChar("a")>>) }

\* the values of the destination d: one of each variant
DestValues ==
  { VarNatural(7), VarInt(-7), VarFloat(F32(3, 2)), VarChar("z"), VarBool(TRUE),
    VarStr(<<"s">>), VarList(<<VarNatural(1), VarChar("a")>>), VarList(<<>>) }

Table(d, a, b) == (nd :> d) @@ (na :> a) @@ (nb :> b) @@ (nz :> VarNatural(1))

Tables ==
  {Table(d, a, b) : d \in DestValues, a \in Values, b \in Values}
    \cup {remove_entry(Table(VarNatural(7), a, b), nd) : a \in Values, b \in Values}
    \cup {remove_entry(Table(d, VarNatural(0), b), na) : d \in DestValues, b \in Values}

\* the lines run on them
OpLines ==
  {Join(<<m, nd, na, nb>>) :
     m \in {tADD, tSUB, tMUL, tDIV, tMOD, tAND, tOR, tXOR, tINDEX, tINSERT}} \cup
  {Join(<<m, nd, na>>) : m \in {tROUND, tFLOOR, tCEIL, tNOT, tCONVERT, tLEN}} \cup
  {Join(<<m, nL, na, nb>>) : m \in {tJEQ, tJNE, tJGT, tJLT}} \cup
  {Join(<<tSET, nd, t>>) :
     t \in {na, t5, <<"-","2">>, <<"+","3">>, <<"T","R","U","E">>, <<"\"","h","i">>,
            <<"'","a","'">>, <<"[","1",",","2">>}} \cup
  { Join(<<tSLICE, nd, nb, nz, na>>),
    Join(<<tFREE, nd>>),
    Join(<<tPRINT, nd>>),
    Join(<<tINPUT, nd>>),
    Join(<<tJMP, nL>>),
    Join(<<tDECL, nd, tNATURAL>>) }

\* every program first registers the label L
OpPrograms == {<<Join(<<tLABEL, nL>>), line>> : line \in OpLines}

\* a Program in its run, its variables declared, at its first line
InitLine ==
  /\ program \in OpPrograms
  /\ vars \in Tables
  /\ labels = EmptyMap
  /\ current_line = 0
  /\ status = "running"
  /\ runs = 1
  /\ output = <<>>
  /\ trace = <<>>
  /\ last = NoStep
  /\ prev = <<>>
  /\ overflow_checks \in BOOLEAN
  /\ jumps = 0

NextLine == run_program_step \/ run_program_end

SpecLine == InitLine /\ [][NextLine]_state_vars

-----------------------------------------------------------------------------
(* What the claims speak of *)

\* a step of this run has executed, and `last` describes it
Stepped == last.line >= 0
SteppedOk == Stepped /\ last.outcome = "ok"

\* the last step executed a line whose first token is exactly m, with the
\* operands m takes
Executed(m, arity) ==
  /\ Stepped
  /\ Len(Words(last.text)) >= arity + 1
  /\ Words(last.text)[1] = m

\* the first token is a mnemonic of the arity table in some letter case
Recognized(text) ==
  /\ Words(text) # <<>>
  /\ to_uppercase(Words(text)[1]) \in DOMAIN command_parameter_num_map

\* the VarType a type name of DECL stands for
VarTypeOf(t) ==
  IF t = tNATURAL THEN "Natural"
  ELSE IF t = tINTEGER THEN "Integer"
  ELSE IF t = tFLOAT THEN "Float"
  ELSE IF t = tCHARACTER THEN "Character"
  ELSE IF t = tBOOLEAN THEN "Boolean"
  ELSE IF t = tSTR THEN "Str"
  ELSE "List"

\* the lines of this run executed before the last step
EarlierLines == {trace[i] : i \in 1..(Len(trace) - 1)}

\* line k of the program is `LABEL n`
IsLabelLine(k, n) ==
  LET w == Words(program[k + 1]) IN Len(w) >= 2 /\ w[1] = tLABEL /\ w[2] = n

\* the last step applied a jump; the line its label was bound to
Jumped == last.outcome = "ok" /\ last.resp = "Jump"
JumpLabelLine == last.labels[Words(last.text)[2]]

-----------------------------------------------------------------------------
(* Claims *)

\* C1: after a step that executes `DECL n T`, for each of the seven type
\* names, the variable table maps n to the zero value of T.
C1_DeclStoresZeroValue ==
  (Executed(tDECL, 2) /\ Words(last.text)[3] \in TypeNames) =>
    LET n == Words(last.text)[2]
        t == Words(last.text)[3]
    IN /\ last.outcome = "ok"
       /\ has_var(vars, n)
       /\ vars[n] = zero_value(VarTypeOf(t))

\* C2: the program DECL x NATURAL / SET x 5 / DECL y NATURAL / SET y 3 /
\* ADD x x y ends halted, never panicked, with x = Natural 8 and y = Natural 3.
C2_AddScenarioLeavesEight ==
  (program = AddScenario /\ status \in {"halted", "panicked"}) =>
    /\ status = "halted"
    /\ has_var(vars, nx) /\ vars[nx] = VarNatural(8)
    /\ has_var(vars, ny) /\ vars[ny] = VarNatural(3)

\* C3: a `JMP n` executed before any line `LABEL n` has been executed is a
\* fatal failure, and a `JMP n` executed after a line `LABEL n` has been
\* executed is not.
C3_JumpNeedsExecutedLabel ==
  Executed(tJMP, 1) =>
    LET n == Words(last.text)[2] IN
    (last.outcome = "ok") <=> (\E k \in EarlierLines : IsLabelLine(k, n))

\* C4: a step that applies a jump to a label bound to line k leaves the
\* pointer at k + 1, so the line fetched next is k + 1 (the run halts when
\* that is the line count) and never the label's own line k.
C4_JumpResumesAfterLabel ==
  /\ [](Jumped => current_line = JumpLabelLine + 1)
  /\ [][(Jumped /\ Len(trace') = Len(trace) + 1)
          => trace'[Len(trace')] = JumpLabelLine + 1]_state_vars

\* a jump back to a label that is not the first line has been applied, and
\* the line after the label fetched
C4_Witness ==
  /\ Len(trace) >= 2
  /\ IsLabelLine(1, nL)
  /\ Words(program[trace[Len(trace) - 1] + 1]) = <<tJMP, nL>>
  /\ trace[Len(trace)] = 2

\* C5: a line whose first token is no recognized mnemonic, a blank or
\* whitespace-only line included, is a no-op step: no failure, both tables
\* unchanged, the pointer advanced by one.
C5_UnrecognizedIsNoOp ==
  (Stepped /\ ~Recognized(last.text)) =>
    /\ last.outcome = "ok"
    /\ vars = last.vars
    /\ labels = last.labels
    /\ current_line = last.line + 1

\* C6: a line whose mnemonic is in lower or mixed case, with enough
\* operands, has the effect of the same line with the mnemonic in upper case.
C6_MnemonicCaseInsensitive ==
  LET w == Words(last.text) IN
  (/\ Stepped /\ Recognized(last.text)
   /\ w[1] # to_uppercase(w[1])
   /\ Len(w) >= command_parameter_num_map[to_uppercase(w[1])] + 1) =>
    \E read \in Reads :
      LET before == [vars |-> last.vars, labels |-> last.labels,
                     current_line |-> last.line]
          upper == Join(<<to_uppercase(w[1])>> \o Tail(w))
          r == run_line(before, upper, command_parameter_num_map, read)
      IN IF r.panic THEN last.outcome = "panic"
         ELSE /\ last.outcome = "ok"
              /\ vars = r.self.vars
              /\ labels = r.self.labels
              /\ current_line = r.self.current_line + 1

\* the two operands of the conditional jump the last step executed
Operand1 == last.vars[Words(last.text)[3]]
Operand2 == last.vars[Words(last.text)[4]]

\* the last step executed the conditional jump m, its label registered and
\* its operands declared
ComparedBy(m) ==
  /\ Executed(m, 3)
  /\ has_label(last.labels, Words(last.text)[2])
  /\ has_var(last.vars, Words(last.text)[3])
  /\ has_var(last.vars, Words(last.text)[4])

FellThrough ==
  /\ last.outcome = "ok" /\ last.resp = "Nothing"
  /\ current_line = last.line + 1

\* C7: each conditional jump jumps iff its own condition holds on the two
\* operand values (JEQ equal, JNE not equal, JGT greater, JLT less), and
\* otherwise gives no response and goes on with the next line.
C7_ConditionalJumpsTestOwnCondition ==
  /\ ComparedBy(tJEQ) =>
       IF variable_eq(Operand1, Operand2) THEN Jumped ELSE FellThrough
  /\ ComparedBy(tJNE) =>
       IF ~variable_eq(Operand1, Operand2) THEN Jumped ELSE FellThrough
  /\ ComparedBy(tJGT) =>
       IF variable_gt(Operand1, Operand2) THEN Jumped ELSE FellThrough
  /\ ComparedBy(tJLT) =>
       IF variable_lt(Operand1, Operand2) THEN Jumped ELSE FellThrough

DifferentTags == Operand1.tag # Operand2.tag

\* C8 as stated: with operands of different variants JEQ, JGT and JLT never
\* jump and JNE does.
C8_DifferentTagsNeverOrdered ==
  /\ (ComparedBy(tJEQ) /\ DifferentTags) => FellThrough
  /\ (ComparedBy(tJGT) /\ DifferentTags) => FellThrough
  /\ (ComparedBy(tJLT) /\ DifferentTags) => FellThrough
  /\ (ComparedBy(tJNE) /\ DifferentTags) => Jumped

\* the position of a variant in the declaration of enum Variable
VariantRank(tag) ==
  CHOOSE i \in 1..7 :
    <<"Natural", "Int", "Float", "Char", "Bool", "Str", "List">>[i] = tag

\* C8, amended: with operands of different variants JEQ and JLT never jump
\* and JNE always does; JGT jumps exactly when the first operand's variant
\* is declared after the second's, whatever the payloads.
C8_DifferentTagsOrderedByVariant ==
  /\ (ComparedBy(tJEQ) /\ DifferentTags) => FellThrough
  /\ (ComparedBy(tJLT) /\ DifferentTags) => FellThrough
  /\ (ComparedBy(tJNE) /\ DifferentTags) => Jumped
  /\ (ComparedBy(tJGT) /\ DifferentTags) =>
       IF VariantRank(Operand1.tag) > VariantRank(Operand2.tag)
         THEN Jumped ELSE FellThrough

\* JGT of an Int against a Natural of greater payload has jumped
C8_Witness ==
  /\ ComparedBy(tJGT) /\ Jumped
  /\ Operand1 = VarInt(-2) /\ Operand2 = VarNatural(2)

\* the destination and the resolved source of the SET the last step executed
SetRan ==
  /\ Executed(tSET, 2)
  /\ has_var(last.vars, Words(last.text)[2])
  /\ ~is_panic(parse_literal(last.vars, Words(last.text)[3]))
SetDest == Words(last.text)[2]
SetSource == parse_literal(last.vars, Words(last.text)[3])

\* C9: SET with a source whose tag differs from the destination's is a fatal
\* failure that leaves the destination as it was; with equal tags the
\* destination takes the source's payload and keeps its tag.
C9_SetNeverConverts ==
  SetRan =>
    IF SetSource.tag # last.vars[SetDest].tag
      THEN /\ last.outcome = "panic"
           /\ vars = last.vars
      ELSE /\ last.outcome = "ok"
           /\ vars[SetDest].tag = last.vars[SetDest].tag
           /\ vars[SetDest].val = SetSource.val
           /\ \A n \in DOMAIN last.vars \ {SetDest} : vars[n] = last.vars[n]
           /\ DOMAIN vars = DOMAIN last.vars

\* SET of the Natural literal 5 into an Int destination has failed
C9_Witness ==
  /\ SetRan
  /\ Words(last.text)[3] = t5
  /\ last.vars[SetDest] = VarInt(-7)
  /\ last.outcome = "panic"

\* the pieces of the INSERT the last step executed
InsertRan ==
  /\ Executed(tINSERT, 3)
  /\ has_tag_var(last.vars, Words(last.text)[2], "List")
  /\ has_num_var(last.vars, Words(last.text)[3])
  /\ has_var(last.vars, Words(last.text)[4])
InsertList == last.vars[Words(last.text)[2]].val
InsertIndex == get_nat_var(last.vars, Words(last.text)[3])
InsertItem == last.vars[Words(last.text)[4]]

\* C10: INSERT l i v on a list of length n appends v when i = n, places v at
\* position i and shifts the later elements right when i < n, and is a
\* fatal failure when i > n; the list is modified in the first two cases.
C10_InsertPlacesItem ==
  InsertRan =>
    LET n == Len(InsertList)
        after == vars[Words(last.text)[2]].val
    IN IF InsertIndex > n THEN last.outcome = "panic"
       ELSE /\ last.outcome = "ok"
            /\ Len(after) = n + 1
            /\ after[InsertIndex + 1] = InsertItem
            /\ \A j \in 1..n :
                 after[IF j <= InsertIndex THEN j ELSE j + 1] = InsertList[j]

-----------------------------------------------------------------------------
(* run_line after a FREE: the loop of run_program on `LABEL L`, `FREE n`   *)
(* and one more line, from a variable table drawn from FreeTables          *)

FreeTables ==
  {Table(d, a, b) : d \in DestValues,
                    a \in {VarNatural(0), VarBool(TRUE), VarList(<<VarNatural(1), VarChar("a")>>)},
                    b \in {VarNatural(2), VarBool(FALSE)}}

FreePrograms ==
  {<<Join(<<tLABEL, nL>>), Join(<<tFREE, n>>), line>> :
     n \in {nd, na, nb}, line \in OpLines}

InitFree ==
  /\ program \in FreePrograms
  /\ vars \in FreeTables
  /\ labels = EmptyMap
  /\ current_line = 0
  /\ status = "running"
  /\ runs = 1
  /\ output = <<>>
  /\ trace = <<>>
  /\ last = NoStep
  /\ prev = <<>>
  /\ overflow_checks \in BOOLEAN
  /\ jumps = 0

NextFree == run_program_step \/ run_program_end

SpecFree == InitFree /\ [][NextFree]_state_vars

\* the operand positions of a line that name variables (the destination
\* first), by the line's mnemonic
VarPositions(w) ==
  LET m == w[1] IN
  IF m \in {tADD, tSUB, tMUL, tDIV, tMOD, tAND, tOR, tXOR, tINDEX, tINSERT} THEN {2, 3, 4}
  ELSE IF m \in {tROUND, tFLOOR, tCEIL, tNOT, tCONVERT, tLEN, tSET} THEN {2, 3}
  ELSE IF m \in {tFREE, tPRINT, tINPUT} THEN {2}
  ELSE IF m = tSLICE THEN {2, 3, 4, 5}
  ELSE IF m \in {tJEQ, tJNE, tJGT, tJLT} THEN {3, 4}
  ELSE {}

\* the line is an instruction with all its operands that names variable n
References(text, n) ==
  LET w == Words(text) IN
    /\ w # <<>>
    /\ VarPositions(w) # {}
    /\ \A i \in VarPositions(w) : i <= Len(w)
    /\ \E i \in VarPositions(w) : w[i] = n

\* line k of the program is `m n ..`
IsLineOf(k, m, n) ==
  LET w == Words(program[k + 1]) IN Len(w) >= 2 /\ w[1] = m /\ w[2] = n

\* a `FREE n` was executed before the last step, and no `DECL n ..` between
FreedBefore(n) ==
  \E i \in 1..(Len(trace) - 1) :
     /\ IsLineOf(trace[i], tFREE, n)
     /\ \A j \in (i + 1)..(Len(trace) - 1) : ~IsLineOf(trace[j], tDECL, n)

FreeNames == {nd, na, nb}

\* C11: a `FREE n` executed on a declared variable removes n from the
\* variable table, and every later instruction that names n as destination
\* or operand, before a re-declaration of n, is a fatal failure; a `FREE n`
\* on a name that is not in the variable table is a fatal failure.
C11_FreedNameIsFatal ==
  /\ Executed(tFREE, 1) =>
       LET n == Words(last.text)[2] IN
         IF has_var(last.vars, n)
           THEN last.outcome = "ok" /\ ~has_var(vars, n)
           ELSE last.outcome = "panic"
  /\ \A n \in FreeNames :
       (Stepped /\ FreedBefore(n) /\ References(last.text, n))
          => last.outcome = "panic"

\* the same, of the instructions other than INSERT
C11_FreedNameIsFatalButInsert ==
  /\ Executed(tFREE, 1) =>
       LET n == Words(last.text)[2] IN
         IF has_var(last.vars, n)
           THEN last.outcome = "ok" /\ ~has_var(vars, n)
           ELSE last.outcome = "panic"
  /\ \A n \in FreeNames :
       (Stepped /\ FreedBefore(n) /\ References(last.text, n)
          /\ Words(last.text)[1] # tINSERT)
          => last.outcome = "panic"

-----------------------------------------------------------------------------

\* the last step executed `m d a b` with d, a and b in the variable table
Ran3(m) ==
  /\ Executed(m, 3)
  /\ has_var(last.vars, Words(last.text)[2])
  /\ has_var(last.vars, Words(last.text)[3])
  /\ has_var(last.vars, Words(last.text)[4])

\* the destination before the last step, and its two operands
DestBefore == last.vars[Words(last.text)[2]]
DestAfter == vars[Words(last.text)[2]]
OperandA == last.vars[Words(last.text)[3]]
OperandB == last.vars[Words(last.text)[4]]

\* what an operand contributes to a concatenation: its elements if it is a
\* List, itself as a single element otherwise
Contribution(v) == IF v.tag = "List" THEN v.val ELSE <<v>>

\* C12: ADD with a List destination overwrites the destination with the
\* concatenation of what its two operands contribute, each operand its own
\* elements if it is a List and itself as one element otherwise; a non-List
\* a and a List [b1..bk] give [a, b1, .., bk].
C12_AddConcatenatesOperands ==
  (Ran3(tADD) /\ DestBefore.tag = "List") =>
     /\ last.outcome = "ok"
     /\ DestAfter = VarList(Contribution(OperandA) \o Contribution(OperandB))

\* the same, of a first operand that is a List or a second that is not
C12_AddConcatenatesButListSecond ==
  (Ran3(tADD) /\ DestBefore.tag = "List"
     /\ (OperandA.tag = "List" \/ OperandB.tag # "List")) =>
     /\ last.outcome = "ok"
     /\ DestAfter = VarList(Contribution(OperandA) \o Contribution(OperandB))

-----------------------------------------------------------------------------

ArithmeticFamily == {tADD, tSUB, tMUL, tDIV, tMOD}
RoundingFamily == {tROUND, tFLOOR, tCEIL}

\* the last step executed an opcode of one of the two families on a
\* destination and numeric operands that are in the variable table
NumericRan ==
  /\ Stepped
  /\ Words(last.text) # <<>>
  /\ LET w == Words(last.text) IN
       \/ /\ w[1] \in ArithmeticFamily /\ Len(w) >= 4
          /\ has_var(last.vars, w[2])
          /\ has_num_var(last.vars, w[3]) /\ has_num_var(last.vars, w[4])
       \/ /\ w[1] \in RoundingFamily /\ Len(w) >= 3
          /\ has_var(last.vars, w[2])
          /\ has_num_var(last.vars, w[3])

\* the f32 the opcode computes from its operands before the cast into the
\* destination (SUB adds, see C20)
ComputedResult ==
  LET w == Words(last.text)
      a == to_float(last.vars[w[3]])
  IN IF w[1] = tROUND THEN f32_round(a)
     ELSE IF w[1] = tFLOOR THEN f32_floor(a)
     ELSE IF w[1] = tCEIL THEN f32_ceil(a)
     ELSE LET b == to_float(last.vars[w[4]]) IN
          IF w[1] \in {tADD, tSUB} THEN f32_add(a, b)
          ELSE IF w[1] = tMUL THEN f32_mul(a, b)
          ELSE IF w[1] = tDIV THEN f32_div(a, b)
          ELSE f32_rem(a, b)

\* |round(r)| of a finite r, halves rounded away from zero
RoundedMagnitude(r) == (2 * Abs(r.num) + r.den) \div (2 * r.den)

NegativeResult ==
  NumericRan /\ DestBefore.tag = "Natural"
    /\ is_finite(ComputedResult) /\ ComputedResult.num < 0

\* C13: an arithmetic (ADD, SUB, MUL, DIV, MOD) or rounding (ROUND, FLOOR,
\* CEIL) opcode with a Natural destination and a negative result r stores
\* |round(r)|, the magnitude, and neither 0 nor a failure: ROUND of -3.7
\* stores 4 and CEIL of -3.7 stores 3.
C13_NegativeFoldedToMagnitude ==
  NegativeResult =>
     /\ last.outcome = "ok"
     /\ DestAfter = VarNatural(RoundedMagnitude(ComputedResult))

\* the same, of the opcodes other than CEIL
C13_NegativeFoldedButCeil ==
  (NegativeResult /\ Words(last.text)[1] # tCEIL) =>
     /\ last.outcome = "ok"
     /\ DestAfter = VarNatural(RoundedMagnitude(ComputedResult))

\* every opcode of the two families has met a negative result
C13_Reached(m) == NegativeResult /\ Words(last.text)[1] = m

-----------------------------------------------------------------------------
(* CONVERT of a Str into a List and of that List into a Str: the loop of   *)
(* run_program on the two CONVERT lines, from a table that holds the Str   *)

MaxStrLen == 3

\* the characters of the strings converted
StrChars == {"h", "i", ",", " ", "["}

Strings == SeqsUpTo(StrChars, MaxStrLen)

RoundTripProgram == << Join(<<tCONVERT, nd, na>>), Join(<<tCONVERT, nb, nd>>) >>

InitConvert ==
  /\ program = RoundTripProgram
  /\ \E s \in Strings, l \in {VarList(<<>>), VarList(<<VarNatural(1), VarChar("a")>>)},
        t \in {VarStr(<<>>), VarStr(<<"s">>)} :
       vars = (nd :> l) @@ (na :> VarStr(s)) @@ (nb :> t)
  /\ labels = EmptyMap
  /\ current_line = 0
  /\ status = "running"
  /\ runs = 1
  /\ output = <<>>
  /\ trace = <<>>
  /\ last = NoStep
  /\ prev = <<>>
  /\ overflow_checks \in BOOLEAN
  /\ jumps = 0

NextConvert == run_program_step \/ run_program_end

SpecConvert == InitConvert /\ [][NextConvert]_state_vars

\* C14: CONVERT of a Str s into a List destination gives one Char element
\* per character of s, and CONVERT of that List into a Str destination
\* gives a Str equal to s.
C14_StrListStrRoundTrip ==
  /\ (Stepped /\ last.line = 0) =>
        /\ last.outcome = "ok"
        /\ vars[nd] = VarList([i \in 1..Len(vars[na].val) |-> VarChar(vars[na].val[i])])
  /\ (Stepped /\ last.line = 1) =>
        /\ last.outcome = "ok"
        /\ vars[nb] = vars[na]

\* the first CONVERT alone: the List holds the characters of s in order
C14_StrToListExplodes ==
  (Stepped /\ last.line = 0) =>
     /\ last.outcome = "ok"
     /\ vars[nd] = VarList([i \in 1..Len(vars[na].val) |-> VarChar(vars[na].val[i])])

\* the second CONVERT gives the display form of the List: the characters
\* separated by ", " between "[" and "]"
C14_ListToStrIsDisplayForm ==
  (Stepped /\ last.line = 1) =>
     /\ last.outcome = "ok"
     /\ Len(vars[nb].val) = (IF vars[na].val = <<>> THEN 2 ELSE 3 * Len(vars[na].val))
     /\ vars[nb] # vars[na]

-----------------------------------------------------------------------------
(* run_line on lines whose operands are literals: the loop of run_program  *)
(* on `LABEL L` and one such line, from a table drawn from FreeTables      *)

tTRUE == <<"T","R","U","E">>
tMinus2 == <<"-","2">>
t0 == <<"0">>

LiteralLines ==
  { Join(<<tADD, nd, na, t5>>),   Join(<<tADD, nd, t5, t3>>),
    Join(<<tSUB, nd, t5, nb>>),   Join(<<tMUL, nd, nb, tMinus2>>),
    Join(<<tDIV, nd, nb, t5>>),   Join(<<tMOD, nd, t5, t3>>),
    Join(<<tROUND, nd, tMinus2>>), Join(<<tFLOOR, nd, t5>>),
    Join(<<tCEIL, nd, t5>>),
    Join(<<tAND, nd, nb, tTRUE>>), Join(<<tOR, nd, tTRUE, nb>>),
    Join(<<tXOR, nd, tTRUE, tTRUE>>), Join(<<tNOT, nd, tTRUE>>),
    Join(<<tJEQ, nL, nb, t5>>),   Join(<<tJNE, nL, tMinus2, nb>>),
    Join(<<tJGT, nL, t5, t3>>),   Join(<<tJLT, nL, t3, t3>>),
    Join(<<tCONVERT, nd, t5>>),   Join(<<tCONVERT, nd, tTRUE>>),
    Join(<<tINDEX, nd, na, t0>>), Join(<<tSLICE, nd, na, t0, t0>>),
    Join(<<tSET, nd, t5>>),       Join(<<tADD, nd, na, nb>>) }

LiteralPrograms == {<<Join(<<tLABEL, nL>>), line>> : line \in LiteralLines}

InitLiteral ==
  /\ program \in LiteralPrograms
  /\ vars \in FreeTables
  /\ labels = EmptyMap
  /\ current_line = 0
  /\ status = "running"
  /\ runs = 1
  /\ output = <<>>
  /\ trace = <<>>
  /\ last = NoStep
  /\ prev = <<>>
  /\ overflow_checks \in BOOLEAN
  /\ jumps = 0

NextLiteral == run_program_step \/ run_program_end

SpecLiteral == InitLiteral /\ [][NextLiteral]_state_vars

\* the source operand positions of a line: VarPositions but the destination
OperandPositions(w) ==
  IF w[1] \in {tJEQ, tJNE, tJGT, tJLT} THEN {3, 4} ELSE VarPositions(w) \ {2}

\* the operand tokens of the line that name no variable of the table and
\* are well-formed literals
LiteralOperands(table, text) ==
  LET w == Words(text) IN
  IF w = <<>> \/ \E i \in OperandPositions(w) : i > Len(w) THEN {}
  ELSE {w[i] : i \in {j \in OperandPositions(w) :
                        /\ ~has_var(table, w[j])
                        /\ ~is_panic(parse_literal(table, w[j]))}}

\* the table with every literal operand of the line held under its own
\* token as a name
WithLiterals(table, text) ==
  [n \in DOMAIN table \cup LiteralOperands(table, text) |->
     IF n \in DOMAIN table THEN table[n] ELSE parse_literal(table, n)]

\* the last step executed a line that has a literal operand
LiteralOperandRan == Stepped /\ LiteralOperands(last.vars, last.text) # {}

\* C15: an operand token that is no variable name and is a well-formed
\* literal is evaluated to the literal's value: the step does what the same
\* line does when a variable of that name holds that value, and is no
\* fatal lookup failure.
C15_LiteralOperandsAccepted ==
  LiteralOperandRan =>
    LET r == run_line([vars |-> WithLiterals(last.vars, last.text),
                       labels |-> last.labels, current_line |-> last.line],
                      last.text, command_parameter_num_map, NoRead)
    IN IF r.panic THEN last.outcome = "panic"
       ELSE /\ last.outcome = "ok"
            /\ current_line = r.self.current_line + 1
            /\ \A n \in DOMAIN last.vars : vars[n] = r.self.vars[n]

\* a literal operand is accepted by SET alone: in every other opcode the
\* step is fatal, whatever the destination and the other operand
C15_LiteralOperandOnlyInSet ==
  (LiteralOperandRan /\ Words(last.text)[1] # tSET) => last.outcome = "panic"

-----------------------------------------------------------------------------

\* s is t or the start of t
IsPrefix(s, t) == Len(s) <= Len(t) /\ \A i \in 1..Len(s) : s[i] = t[i]

\* the lines this run has executed
TraceLines == {trace[i] : i \in 1..Len(trace)}

\* C16: a run starts from the empty variable table, the empty label table
\* and pointer 0 whatever the run before it left: the second run of a
\* program executes the lines the first run executed and ends as it ended,
\* and its label table holds only what this run registered, so no label of
\* the first run lets a jump of the second succeed.
C16_RunStartsFresh ==
  /\ (status = "running" /\ trace = <<>>) =>
        vars = EmptyMap /\ labels = EmptyMap /\ current_line = 0
  /\ runs >= 2 =>
        /\ IsPrefix(trace, prev)
        /\ status # "panicked"
        /\ status = "halted" => trace = prev
  /\ \A n \in DOMAIN labels : labels[n] \in TraceLines

\* a second run has started after a first that executed lines and left a
\* label, and a second run has ended
C16_Witness ==
  /\ runs = 2
  /\ prev # <<>>
  /\ status = "halted"
  /\ labels # EmptyMap

-----------------------------------------------------------------------------

\* the last step executed `INPUT d` and its read of stdin failed
FailedReadRan == Executed(tINPUT, 1) /\ ~last.read.ok

\* C17: an `INPUT d` whose read of the input stream fails is a fatal
\* failure: the run halts at that step and executes no later line.
C17_FailedReadIsFatal ==
  FailedReadRan => (last.outcome = "panic" /\ status = "panicked")

\* the result of the read plays no part: an INPUT on a declared destination
\* is never a failure, and after a failed read a Str destination is empty
\* and any other destination is as it was
C17_FailedReadIsIgnored ==
  (Executed(tINPUT, 1) /\ has_var(last.vars, Words(last.text)[2])) =>
     /\ last.outcome = "ok"
     /\ status # "panicked"
     /\ current_line = last.line + 1
     /\ ~last.read.ok =>
          DestAfter = (IF DestBefore.tag = "Str" THEN VarStr(<<>>) ELSE DestBefore)

-----------------------------------------------------------------------------

\* C18: every label table entry n -> k was created by executing a LABEL
\* line: line k is `LABEL n`, it has been executed in this run, and a step
\* that executes any other instruction leaves the label table as it was.
C18_LabelsComeFromLabelLines ==
  /\ \A n \in DOMAIN labels :
       labels[n] \in TraceLines /\ IsLineOf(labels[n], tLABEL, n)
  /\ (SteppedOk /\ labels # last.labels) => Executed(tLABEL, 1)

\* the same, with the DECL lines counted among the lines that register
C18_LabelsComeFromLabelOrDeclLines ==
  /\ \A n \in DOMAIN labels :
       /\ labels[n] \in TraceLines
       /\ IsLineOf(labels[n], tLABEL, n) \/ IsLineOf(labels[n], tDECL, n)
  /\ (SteppedOk /\ labels # last.labels) =>
        Executed(tLABEL, 1) \/ Executed(tDECL, 2)

-----------------------------------------------------------------------------

\* the positions of the trace, before the last step, that executed a line
\* `m n ..`
ExecutedAt(m, n) == {i \in 1..(Len(trace) - 1) : IsLineOf(trace[i], m, n)}

\* the line of the `LABEL n` executed most recently before the last step
LastLabelLine(n) ==
  trace[CHOOSE i \in ExecutedAt(tLABEL, n) : \A j \in ExecutedAt(tLABEL, n) : j <= i]

\* the line of the `LABEL n` or `DECL n ..` executed most recently
LastRegisteringLine(n) ==
  LET S == ExecutedAt(tLABEL, n) \cup ExecutedAt(tDECL, n) IN
  trace[CHOOSE i \in S : \A j \in S : j <= i]

\* the label the jump of the last step names
JumpName == Words(last.text)[2]

\* C19: a `LABEL n` executed on line k is no failure and leaves the label
\* table mapping n to k whatever it mapped n to before, and every later
\* jump to n resumes at k + 1 for the k of the `LABEL n` executed most
\* recently, never at the line of an earlier definition.
C19_RelabelOverwrites ==
  /\ Executed(tLABEL, 1) =>
       /\ last.outcome = "ok"
       /\ labels[Words(last.text)[2]] = last.line
  /\ (Jumped /\ ExecutedAt(tLABEL, JumpName) # {}) =>
       current_line = LastLabelLine(JumpName) + 1

\* the same, with the DECL lines counted among the definitions of a label
C19_RelabelOverwritesWithDecl ==
  /\ (Executed(tLABEL, 1) \/ Executed(tDECL, 2)) =>
       /\ last.outcome = "ok"
       /\ labels[Words(last.text)[2]] = last.line
  /\ Jumped => current_line = LastRegisteringLine(JumpName) + 1

\* a jump has resumed after the second of two executed `LABEL n` lines
C19_Relabelled ==
  /\ Jumped
  /\ Cardinality({trace[i] : i \in ExecutedAt(tLABEL, JumpName)}) >= 2
  /\ current_line = LastLabelLine(JumpName) + 1

-----------------------------------------------------------------------------

NumericTags == {"Natural", "Int", "Float"}

\* the last step executed `SUB d a b` on a numeric destination and numeric
\* operands
SubRan ==
  /\ Ran3(tSUB)
  /\ DestBefore.tag \in NumericTags
  /\ is_number(OperandA) /\ is_number(OperandB)

\* C20: SUB stores the cast of the sum of its operands, not of their
\* difference: on a numeric destination and numeric operands `SUB d a b`
\* leaves d with the value `ADD d a b` leaves.
C20_SubStoresSum ==
  SubRan =>
    /\ last.outcome = "ok"
    /\ DestAfter = add(DestBefore, OperandA, OperandB)
    /\ DestAfter = cast_round_abs(DestBefore, f32_add(to_float(OperandA), to_float(OperandB)))

\* a SUB has run whose sum and difference are cast to different values
C20_Witness ==
  /\ SubRan
  /\ last.outcome = "ok"
  /\ DestAfter # sub_difference(DestBefore, to_float(OperandA), to_float(OperandB))

-----------------------------------------------------------------------------
(* CONVERT between Natural and Int over the whole 32-bit range: the loop   *)
(* of run_program on `CONVERT d a` (and back), from a table drawn from     *)
(* CastTables                                                              *)

\* the u32 and the i32 converted: the small ones and the ends of the ranges
CastNaturals ==
  (0..3) \cup {I32_MAX - 1, I32_MAX, above_i32(0), above_i32(1),
               above_i32(I32_MAX - 1), U32_MAX}
CastInts == (-3..3) \cup {I32_MIN, I32_MIN + 1, I32_MAX - 1, I32_MAX}

CastTables ==
  {(nd :> d) @@ (na :> a) :
     d \in {VarInt(0), VarNatural(0)},
     a \in {VarNatural(n) : n \in CastNaturals} \cup {VarInt(i) : i \in CastInts}}

CastPrograms ==
  { << Join(<<tCONVERT, nd, na>>) >>,
    << Join(<<tCONVERT, nd, na>>), Join(<<tCONVERT, na, nd>>) >> }

InitCast ==
  /\ program \in CastPrograms
  /\ vars \in CastTables
  /\ labels = EmptyMap
  /\ current_line = 0
  /\ status = "running"
  /\ runs = 1
  /\ output = <<>>
  /\ trace = <<>>
  /\ last = NoStep
  /\ prev = <<>>
  /\ overflow_checks \in BOOLEAN
  /\ jumps = 0

NextCast == run_program_step \/ run_program_end

SpecCast == InitCast /\ [][NextCast]_state_vars

\* the last step executed `CONVERT d a` with d and a in the variable table
ConvertRan ==
  /\ Executed(tCONVERT, 2)
  /\ has_var(last.vars, Words(last.text)[2])
  /\ has_var(last.vars, Words(last.text)[3])

\* |i| as a u32: i32::MIN has the magnitude 2^31
MagnitudeAsU32(i) == IF i = I32_MIN THEN above_i32(0) ELSE Abs(i)

\* C21: CONVERT of an Int i into a Natural destination stores |i| for
\* every 32-bit i, and CONVERT of a Natural n into an Int destination never
\* stores a negative value, for every 32-bit n, those from 2^31 on included.
C21_ConvertKeepsMagnitude ==
  /\ (ConvertRan /\ DestBefore.tag = "Natural" /\ OperandA.tag = "Int") =>
        /\ last.outcome = "ok"
        /\ DestAfter = VarNatural(MagnitudeAsU32(OperandA.val))
  /\ (ConvertRan /\ DestBefore.tag = "Int" /\ OperandA.tag = "Natural") =>
        /\ last.outcome = "ok"
        /\ DestAfter.tag = "Int" /\ DestAfter.val >= 0

\* Int to Natural: |i| is stored, but for i32::MIN in a build that checks
\* overflow, where the step is fatal
C21_IntToNaturalStoresMagnitude ==
  (ConvertRan /\ DestBefore.tag = "Natural" /\ OperandA.tag = "Int") =>
     IF OperandA.val = I32_MIN /\ overflow_checks
       THEN last.outcome = "panic"
       ELSE /\ last.outcome = "ok"
            /\ DestAfter = VarNatural(MagnitudeAsU32(OperandA.val))

\* Natural to Int: n up to i32::MAX keeps its value, n = 2^31 + k becomes
\* i32::MIN + k, which is negative
C21_NaturalToIntWraps ==
  (ConvertRan /\ DestBefore.tag = "Int" /\ OperandA.tag = "Natural") =>
     /\ last.outcome = "ok"
     /\ DestAfter.tag = "Int"
     /\ IF is_above_i32(OperandA.val)
          THEN DestAfter.val = I32_MIN + excess(OperandA.val) /\ DestAfter.val < 0
          ELSE DestAfter.val = OperandA.val

-----------------------------------------------------------------------------

ValueMutating ==
  ArithmeticFamily \cup RoundingFamily \cup
    {tAND, tOR, tXOR, tNOT, tSET, tCONVERT, tSLICE, tINDEX, tLEN, tINSERT, tINPUT}

\* the last step executed a value-mutating opcode without failure
MutatingRan ==
  /\ SteppedOk
  /\ Words(last.text) # <<>>
  /\ Words(last.text)[1] \in ValueMutating
  /\ Len(Words(last.text)) >= 2

\* C22: a step that executes a value-mutating opcode changes at most the
\* payload of its destination: every other variable, the set of declared
\* names, every variable's tag and the label table are as before, and the
\* pointer has advanced by exactly one.
C22_OnlyDestinationPayloadChanges ==
  MutatingRan =>
    LET dest == Words(last.text)[2] IN
      /\ DOMAIN vars = DOMAIN last.vars
      /\ \A n \in DOMAIN last.vars :
           /\ vars[n].tag = last.vars[n].tag
           /\ n # dest => vars[n] = last.vars[n]
      /\ labels = last.labels
      /\ current_line = last.line + 1

\* a CONVERT across tags has changed the payload of its destination
C22_Witness ==
  /\ MutatingRan
  /\ ConvertRan
  /\ DestBefore.tag # OperandA.tag
  /\ DestAfter # DestBefore

-----------------------------------------------------------------------------
(* The conditional jumps with and without their label: the loop of         *)
(* run_program on a conditional jump alone, after `LABEL L` and after a    *)
(* LABEL of another name, from a table that holds both operands            *)

ConditionalJumps == {tJEQ, tJNE, tJGT, tJLT}

JumpPrograms ==
  UNION { { << Join(<<m, nL, na, nb>> ) >>,
            << Join(<<tLABEL, nL>>), Join(<<m, nL, na, nb>>) >>,
            << Join(<<tLABEL, nEND>>), Join(<<m, nL, na, nb>>) >> } :
          m \in ConditionalJumps }

JumpTables == {Table(VarNatural(7), a, b) : a \in Values, b \in Values}

InitJump ==
  /\ program \in JumpPrograms
  /\ vars \in JumpTables
  /\ labels = EmptyMap
  /\ current_line = 0
  /\ status = "running"
  /\ runs = 1
  /\ output = <<>>
  /\ trace = <<>>
  /\ last = NoStep
  /\ prev = <<>>
  /\ overflow_checks \in BOOLEAN
  /\ jumps = 0

NextJump == run_program_step \/ run_program_end

SpecJump == InitJump /\ [][NextJump]_state_vars

\* the last step executed a conditional jump with both operands declared
ConditionalRan ==
  /\ Stepped
  /\ Len(Words(last.text)) >= 4
  /\ Words(last.text)[1] \in ConditionalJumps
  /\ has_var(last.vars, Words(last.text)[3])
  /\ has_var(last.vars, Words(last.text)[4])

LabelRegistered == has_label(last.labels, Words(last.text)[2])

\* C23: a JEQ, JNE, JGT or JLT that names a label that is not in the label
\* table is a fatal failure whatever its condition, so a conditional jump
\* gives no response only when its label is registered.
C23_LabelResolvedBeforeCondition ==
  ConditionalRan =>
    /\ ~LabelRegistered => last.outcome = "panic"
    /\ FellThrough => LabelRegistered

\* a conditional jump whose operands differ (so that JEQ would not jump)
\* has failed for its missing label, and one has fallen through with its
\* label registered
C23_Witness ==
  /\ ConditionalRan
  /\ ~LabelRegistered
  /\ Words(last.text)[1] = tJEQ
  /\ ~variable_eq(Operand1, Operand2)
  /\ last.outcome = "panic"

C23_FellThrough == ConditionalRan /\ FellThrough /\ LabelRegistered

-----------------------------------------------------------------------------

\* the lines 0, 1, .., n - 1 in order
FirstLines(n) == [i \in 1..n |-> i - 1]

\* the run is over: the loop was left or a step failed
Halted == status \in {"halted", "panicked"}

\* C24: a step that applies no jump and does not fail advances the pointer
\* by exactly one, and only a taken jump makes the pointer decrease within
\* a run; so a run that has taken no jump has executed the lines 0, 1, 2, ..
\* each once and in order, at most line-count of them, and it reaches the
\* halted state, by the pointer reaching the line count or by a failure.
C24_WithoutJumpRunIsSequential ==
  /\ []((SteppedOk /\ last.resp # "Jump") => current_line = last.line + 1)
  /\ [][(current_line' < current_line /\ runs' = runs) => jumps' = jumps + 1]_state_vars
  /\ [](jumps = 0 =>
          /\ trace = FirstLines(Len(trace))
          /\ Len(trace) <= Len(program)
          /\ status = "running" => current_line = Len(trace)
          /\ status = "halted" => current_line = Len(program))
  /\ (status = "running" /\ jumps = 0) ~> (Halted \/ jumps > 0)

\* a run of at least two lines has ended, by the pointer reaching the line
\* count, without a jump
C24_Witness ==
  /\ status = "halted"
  /\ jumps = 0
  /\ Len(program) >= 2
  /\ trace = FirstLines(Len(program))

\* a jump has made the pointer decrease
C24_Decreased == Jumped /\ jumps >= 1 /\ current_line <= last.line

=============================================================================
